---- MODULE Spec2Model ----
(***************************************************************************)
(* Model of the StonyRise notebook (src/StonyRise.ipynb): the Load cell    *)
(* (update_tables), the "Mean individuals per night" cell and the "Taxon   *)
(* trends" cell (year_totals, plot_years).                                 *)
(*                                                                         *)
(* Numbers.  Python ints and floats are modelled as exact rationals        *)
(* <<num, den>> with den > 0 and gcd(num, den) = 1, extended with the      *)
(* three IEEE specials that pandas division produces: NaN = <<0,0>>,       *)
(* Inf = <<1,0>>, -Inf = <<-1,0>>.  Rounding error of binary floating      *)
(* point is not modelled.  Python's None is the empty tuple.               *)
(***************************************************************************)
EXTENDS Integers, Sequences, FiniteSets, TLC

VARIABLES individuals, nights, taxa, last, calls,
          mean_individuals, monthly_means, annual_means, error,
          year_totals, month_totals, n, trends,
          px, py, plot, pc

vars == <<individuals, nights, taxa, last, calls,
          mean_individuals, monthly_means, annual_means, error,
          year_totals, month_totals, n, trends,
          px, py, plot, pc>>

(***************************************************************************)
(* Bounds of the model.                                                    *)
(***************************************************************************)
\* number of rows of taxon.csv
NumTaxa == 2
\* number of years start_year..end_year (the notebook has 28)
NumYears == 2
\* largest individualCount of an occurrence row
MaxCount == 1
\* number of occurrence rows read by the Load cell
MaxCalls == 2
\* length of the lists passed to plot_years (the notebook passes 28 years)
PlotLen == 7
\* largest value in the list y passed to plot_years
MaxValue == 1

(***************************************************************************)
(* Program constants.                                                      *)
(***************************************************************************)
start_year == 1992
end_year == start_year + NumYears - 1
num_years == end_year - start_year + 1
\* the literal 12 of "* 12", "range(12)" and "start_index + 12"
MonthsPerYear == 12
\* the literal of sum(min_count=12)
MinCount == 12
\* the literal of "if len(x) > 5"
MinYears == 5

NumBuckets == num_years * MonthsPerYear
Taxa == 0 .. (NumTaxa - 1)
Buckets == 0 .. (NumBuckets - 1)
Years == 0 .. (num_years - 1)
Months == 0 .. (MonthsPerYear - 1)

(***************************************************************************)
(* Numbers.                                                                *)
(***************************************************************************)
None == <<>>
NaN == <<0, 0>>
Zero == <<0, 1>>

Abs(i) == IF i < 0 THEN -i ELSE i

RECURSIVE GCD(_, _)
GCD(a, b) == IF b = 0 THEN a ELSE GCD(b, a % b)

\* the rational num/den, den > 0, in lowest terms
Norm(num, den) ==
    LET g == GCD(Abs(num), den)
    IN  <<num \div g, den \div g>>

RInt(i) == <<i, 1>>

IsFinite(a) == a[2] # 0

\* float addition
FAdd(a, b) ==
    IF a = NaN \/ b = NaN THEN NaN
    ELSE IF ~IsFinite(a) /\ ~IsFinite(b) THEN (IF a = b THEN a ELSE NaN)
    ELSE IF ~IsFinite(a) THEN a
    ELSE IF ~IsFinite(b) THEN b
    ELSE Norm(a[1] * b[2] + b[1] * a[2], a[2] * b[2])

FNeg(a) == <<-a[1], a[2]>>

FSub(a, b) == FAdd(a, FNeg(b))

Sign(i) == IF i > 0 THEN 1 ELSE IF i < 0 THEN -1 ELSE 0

\* float multiplication
FMul(a, b) ==
    IF a = NaN \/ b = NaN THEN NaN
    ELSE IF ~IsFinite(a) \/ ~IsFinite(b)
         THEN (IF a[1] = 0 \/ b[1] = 0 THEN NaN ELSE <<Sign(a[1]) * Sign(b[1]), 0>>)
    ELSE Norm(a[1] * b[1], a[2] * b[2])

\* float division as numpy does it: x/0 is NaN, Inf or -Inf, never an exception
FDiv(a, b) ==
    IF a = NaN \/ b = NaN THEN NaN
    ELSE IF ~IsFinite(b) THEN (IF ~IsFinite(a) THEN NaN ELSE Zero)
    ELSE IF b[1] = 0 THEN <<Sign(a[1]), 0>>
    ELSE IF ~IsFinite(a) THEN <<a[1] * Sign(b[1]), 0>>
    ELSE Norm(Sign(b[1]) * a[1] * b[2], a[2] * Abs(b[1]))

FLeq(a, b) == a[1] * b[2] <= b[1] * a[2]

\* pandas notna / notnull: None and NaN are missing, everything else is present
notna(v) == v # None /\ v # NaN

(***************************************************************************)
(* The records of event.csv, as the Event class keeps them.                *)
(***************************************************************************)
Event(ID, year, month, day, numNights) ==
    [ID |-> ID, year |-> year, month |-> month, day |-> day, numNights |-> numNights]

events ==
    << Event(1, start_year, 1, 1, 1),
       Event(2, start_year, 1, 2, 3),
       Event(3, start_year, 2, 3, 5),
       Event(4, start_year + 1, 1, 2, 35),
       Event(5, end_year, 12, 31, 1) >>

\* events[0].ID and events[len(events) - 1].ID
startEvent == events[1].ID
endEvent == events[Len(events)].ID

\* a Taxon, as far as the notebook reads it
Taxon(firstEvent, lastEvent) == [firstEvent |-> firstEvent, lastEvent |-> lastEvent]

CoreTaxon == Taxon(startEvent, endEvent)
LateTaxon == Taxon(events[2].ID, endEvent)

(***************************************************************************)
(* Load cell: update_tables.                                               *)
(***************************************************************************)
\* Python list indexing: a negative index counts from the end of the list
PyIndex(i) == IF i < 0 THEN i + NumBuckets ELSE i

\* table[taxon_index][i] += v
AddTo(table, taxon_index, i, v) ==
    [table EXCEPT ![taxon_index][PyIndex(i)] = FAdd(@, v)]

time_index(event) == (event.year - start_year) * 12 + event.month - 1

\* variant of update_tables without the two "if time_index > 0" tests: in the first
\* bucket the previous-month shares go to index -1, the last bucket
update_tables_wrap(ind, nts, event, taxon_index, count) ==
    LET ti == time_index(event)
        day == RInt(event.day)
        numNights == RInt(event.numNights)
        rest == RInt(event.numNights - event.day)
    IN  IF event.numNights > event.day
        THEN [individuals |->
                AddTo(AddTo(ind, taxon_index, ti, FMul(RInt(count), FDiv(day, numNights))),
                      taxon_index, ti - 1, FMul(RInt(count), FDiv(rest, numNights))),
              nights |->
                AddTo(AddTo(nts, taxon_index, ti, FMul(numNights, FDiv(day, numNights))),
                      taxon_index, ti - 1, FMul(numNights, FDiv(rest, numNights)))]
        ELSE [individuals |-> AddTo(ind, taxon_index, ti, RInt(count)),
              nights |-> AddTo(nts, taxon_index, ti, numNights)]

\* variant of update_tables that adds no nights to the previous month
update_tables_no_prev_nights(ind, nts, event, taxon_index, count) ==
    LET ti == time_index(event)
        day == RInt(event.day)
        numNights == RInt(event.numNights)
        rest == RInt(event.numNights - event.day)
        ind1 == AddTo(ind, taxon_index, ti, FMul(RInt(count), FDiv(day, numNights)))
    IN  IF event.numNights > event.day
        THEN [individuals |->
                IF ti > 0
                THEN AddTo(ind1, taxon_index, ti - 1, FMul(RInt(count), FDiv(rest, numNights)))
                ELSE ind1,
              nights |-> AddTo(nts, taxon_index, ti, FMul(numNights, FDiv(day, numNights)))]
        ELSE [individuals |-> AddTo(ind, taxon_index, ti, RInt(count)),
              nights |-> AddTo(nts, taxon_index, ti, numNights)]

\* variant of update_tables with "=" where the source has "+="
update_tables_assign(ind, nts, event, taxon_index, count) ==
    LET ti == time_index(event)
        day == RInt(event.day)
        numNights == RInt(event.numNights)
        rest == RInt(event.numNights - event.day)
        ind1 == [ind EXCEPT ![taxon_index][PyIndex(ti)] =
                     FMul(RInt(count), FDiv(day, numNights))]
        nts1 == [nts EXCEPT ![taxon_index][PyIndex(ti)] =
                     FMul(numNights, FDiv(day, numNights))]
    IN  IF event.numNights > event.day
        THEN [individuals |->
                IF ti > 0
                THEN [ind1 EXCEPT ![taxon_index][PyIndex(ti - 1)] =
                          FMul(RInt(count), FDiv(rest, numNights))]
                ELSE ind1,
              nights |->
                IF ti > 0
                THEN [nts1 EXCEPT ![taxon_index][PyIndex(ti - 1)] =
                          FMul(numNights, FDiv(rest, numNights))]
                ELSE nts1]
        ELSE [individuals |-> [ind EXCEPT ![taxon_index][PyIndex(ti)] = RInt(count)],
              nights |-> [nts EXCEPT ![taxon_index][PyIndex(ti)] = numNights]]

\* variant of update_tables for tables built as "[[0] * num_years * 12] * len(taxa)":
\* every row is the same list, so a write to one row shows in all of them
update_tables_shared_rows(ind, nts, event, taxon_index, count) ==
    LET ti == time_index(event)
        day == RInt(event.day)
        numNights == RInt(event.numNights)
        rest == RInt(event.numNights - event.day)
        AddAll(table, i, v) ==
            [u \in Taxa |-> [table[u] EXCEPT ![PyIndex(i)] = FAdd(@, v)]]
        ind1 == AddAll(ind, ti, FMul(RInt(count), FDiv(day, numNights)))
        nts1 == AddAll(nts, ti, FMul(numNights, FDiv(day, numNights)))
    IN  IF event.numNights > event.day
        THEN [individuals |->
                IF ti > 0
                THEN AddAll(ind1, ti - 1, FMul(RInt(count), FDiv(rest, numNights)))
                ELSE ind1,
              nights |->
                IF ti > 0
                THEN AddAll(nts1, ti - 1, FMul(numNights, FDiv(rest, numNights)))
                ELSE nts1]
        ELSE [individuals |-> AddAll(ind, ti, RInt(count)),
              nights |-> AddAll(nts, ti, numNights)]

\* update_tables(individuals, nights, event, taxon_index, count): the two tables
\* after the call
update_tables(ind, nts, event, taxon_index, count) ==
    LET ti == time_index(event)
        day == RInt(event.day)
        numNights == RInt(event.numNights)
        rest == RInt(event.numNights - event.day)
        ind1 == AddTo(ind, taxon_index, ti, FMul(RInt(count), FDiv(day, numNights)))
        nts1 == AddTo(nts, taxon_index, ti, FMul(numNights, FDiv(day, numNights)))
    IN  IF event.numNights > event.day
        THEN [individuals |->
                IF ti > 0
                THEN AddTo(ind1, taxon_index, ti - 1, FMul(RInt(count), FDiv(rest, numNights)))
                ELSE ind1,
              nights |->
                IF ti > 0
                THEN AddTo(nts1, taxon_index, ti - 1, FMul(numNights, FDiv(rest, numNights)))
                ELSE nts1]
        ELSE [individuals |-> AddTo(ind, taxon_index, ti, RInt(count)),
              nights |-> AddTo(nts, taxon_index, ti, numNights)]

\* individuals = [ [0] * num_years * 12 for i in range(len(taxa)) ], and nights
ZeroTable == [t \in Taxa |-> [b \in Buckets |-> Zero]]

\* the arguments of the most recent call of update_tables (the tables as they were
\* passed), or NoCall before the first row is read
NoCall == [called |-> FALSE]

Unset == <<>>

\* the variables of the later cells before those cells have run
LaterCellsUnset ==
    /\ mean_individuals = Unset
    /\ monthly_means = Unset
    /\ annual_means = Unset
    /\ error = ""
    /\ year_totals = Unset
    /\ month_totals = Unset
    /\ n = 0
    /\ trends = Unset
    /\ px = <<>>
    /\ py = <<>>
    /\ plot = Unset

\* the state when the Load cell starts to read occurrence.csv
Init ==
    /\ individuals = ZeroTable
    /\ nights = ZeroTable
    /\ taxa = [t \in Taxa |-> CoreTaxon]
    /\ last = NoCall
    /\ calls = 0
    /\ pc = "load"
    /\ LaterCellsUnset

\* one row of occurrence.csv: update_tables(individuals, nights, event, taxon_dict[row[2]], int(row[8]))
UpdateTables ==
    /\ pc = "load"
    /\ calls < MaxCalls
    /\ \E e \in 1 .. Len(events), taxon_index \in Taxa, count \in 0 .. MaxCount :
          LET r == update_tables(individuals, nights, events[e], taxon_index, count)
          IN  /\ individuals' = r.individuals
              /\ nights' = r.nights
              /\ last' = [called |-> TRUE, individuals |-> individuals, nights |-> nights,
                          event |-> events[e], taxon_index |-> taxon_index,
                          count |-> count]
    /\ calls' = calls + 1
    /\ UNCHANGED <<taxa, mean_individuals, monthly_means, annual_means, error,
                   year_totals, month_totals, n, trends, px, py, plot, pc>>

(***************************************************************************)
(* "Mean individuals per night" cell.                                      *)
(***************************************************************************)
\* mean_individuals = pd.DataFrame(individuals) / pd.DataFrame(nights)
mean_individuals_of(ind, nts) ==
    [t \in Taxa |-> [b \in Buckets |-> FDiv(ind[t][b], nts[t][b])]]

\* value_present = mean_individuals.notna()
value_present_of(mi) == [t \in Taxa |-> [b \in Buckets |-> notna(mi[t][b])]]

RECURSIVE years_counted(_, _, _, _)
\* years_counted after the years 0 .. y of the inner loop
years_counted(mi, t, m, y) ==
    IF y < 0 THEN 0
    ELSE years_counted(mi, t, m, y - 1)
         + (IF value_present_of(mi)[t][y * 12 + m] THEN 1 ELSE 0)

RECURSIVE total_of_means(_, _, _, _)
\* total_of_means after the years 0 .. y of the inner loop
total_of_means(mi, t, m, y) ==
    IF y < 0 THEN Zero
    ELSE IF notna(mi[t][y * 12 + m])
         THEN FAdd(total_of_means(mi, t, m, y - 1), mi[t][y * 12 + m])
         ELSE total_of_means(mi, t, m, y - 1)

\* "total_of_means / years_counted" divides the int 0 by the int 0 when no year
\* was counted: Python raises ZeroDivisionError
Raises(mi, t, m) == years_counted(mi, t, m, num_years - 1) = 0

\* the place of iteration (t, m) in the loop order
LoopIndex(t, m) == t * MonthsPerYear + m

\* the iterations of the monthly loop that raise
RaisingIterations(mi) ==
    {i \in 0 .. (NumTaxa * MonthsPerYear - 1) :
        Raises(mi, i \div MonthsPerYear, i % MonthsPerYear)}

Min(S) == CHOOSE i \in S : \A j \in S : i <= j

\* the number of iterations the monthly loop completes
IterationsDone(mi) ==
    IF RaisingIterations(mi) = {} THEN NumTaxa * MonthsPerYear
    ELSE Min(RaisingIterations(mi))

\* monthly_means when the loop ends, normally or by the exception: the cells of
\* the iterations that completed are assigned, the others keep their None
monthly_means_of(mi) ==
    LET done == IterationsDone(mi)
    IN  [t \in Taxa |-> [m \in Months |->
            IF LoopIndex(t, m) < done
            THEN FDiv(total_of_means(mi, t, m, num_years - 1),
                      RInt(years_counted(mi, t, m, num_years - 1)))
            ELSE None]]

RECURSIVE SumPresent(_, _, _)
\* the sum of the cells row[from .. to] that are not NaN (pandas skips NaN)
SumPresent(row, from, to) ==
    IF to < from THEN Zero
    ELSE IF notna(row[to]) THEN FAdd(SumPresent(row, from, to - 1), row[to])
         ELSE SumPresent(row, from, to - 1)

CountPresent(row, from, to) == Cardinality({b \in from .. to : notna(row[b])})

\* Series.sum(min_count=k): NaN unless at least k cells are present
SumMinCount(row, from, to, k) ==
    IF CountPresent(row, from, to) < k THEN NaN ELSE SumPresent(row, from, to)

\* annual_means.where(pd.notnull(annual_means), None)
WhereNotNull(v) == IF notna(v) THEN v ELSE None

\* variant of annual_mean with min_count one less
annual_mean_eleven(mi, t, y) ==
    LET start_index == y * 12
        end_index == start_index + 12
    IN  WhereNotNull(FDiv(SumMinCount(mi[t], start_index, end_index - 1, MinCount - 1),
                          RInt(12)))

\* annual_means.iloc[t, y], after the final where
annual_mean(mi, t, y) ==
    LET start_index == y * 12
        end_index == start_index + 12
    IN  WhereNotNull(FDiv(SumMinCount(mi[t], start_index, end_index - 1, MinCount),
                          RInt(12)))

annual_means_of(mi) == [t \in Taxa |-> [y \in Years |-> annual_mean(mi, t, y)]]

\* the whole cell: mean_individuals, the monthly loop, and, unless that loop
\* raised, annual_means
MeanCell ==
    /\ pc = "load"
    /\ LET mi == mean_individuals_of(individuals, nights)
           raised == RaisingIterations(mi) # {}
       IN  /\ mean_individuals' = mi
           /\ monthly_means' = monthly_means_of(mi)
           /\ annual_means' = IF raised THEN Unset ELSE annual_means_of(mi)
           /\ error' = IF raised THEN "ZeroDivisionError" ELSE ""
           /\ pc' = IF raised THEN "error" ELSE "means"
    /\ UNCHANGED <<individuals, nights, taxa, last, calls,
                   year_totals, month_totals, n, trends, px, py, plot>>

(***************************************************************************)
(* "Taxon trends" cell: plot_years.                                        *)
(***************************************************************************)
\* Python lists are sequences here: the list index i is the sequence index i + 1
RemoveAt(s, i) == SubSeq(s, 1, i - 1) \o SubSeq(s, i + 1, Len(s))

RECURSIVE DropNone(_, _, _)
\* the loop "for i in range(len(x) - 1, -1, -1): if y[i] is None: x.pop(i); y.pop(i)"
\* from sequence index i down to 1
DropNone(x, y, i) ==
    IF i = 0 THEN [x |-> x, y |-> y]
    ELSE IF y[i] = None THEN DropNone(RemoveAt(x, i), RemoveAt(y, i), i - 1)
         ELSE DropNone(x, y, i - 1)

RECURSIVE SumSeq(_, _)
\* the sum of s[1 .. k]
SumSeq(s, k) == IF k = 0 THEN Zero ELSE FAdd(SumSeq(s, k - 1), s[k])

\* est.params of sm.OLS(y, add_constant(x)).fit(): <<intercept, coefficient on year>>,
\* by the normal equations (x holds at least two different years)
ols_params(x, y) ==
    LET k == Len(x)
        xs == [i \in 1 .. k |-> RInt(x[i])]
        Sx == SumSeq(xs, k)
        Sy == SumSeq(y, k)
        Sxy == SumSeq([i \in 1 .. k |-> FMul(xs[i], y[i])], k)
        Sxx == SumSeq([i \in 1 .. k |-> FMul(xs[i], xs[i])], k)
        coef == FDiv(FSub(FMul(RInt(k), Sxy), FMul(Sx, Sy)),
                     FSub(FMul(RInt(k), Sxx), FMul(Sx, Sx)))
        const == FDiv(FSub(Sy, FMul(coef, Sx)), RInt(k))
    IN  <<const, coef>>

\* est.predict(X)
predict(params, x) ==
    [i \in 1 .. Len(x) |-> FAdd(params[1], FMul(params[2], RInt(x[i])))]

\* the integer nearest to num/den (den > 0, num >= 0); a tie of the exact value goes
\* to the even one
RoundHalfEven(num, den) ==
    LET q == num \div den
        r == 2 * (num - q * den)
    IN  IF r < den THEN q
        ELSE IF r > den THEN q + 1
        ELSE IF q % 2 = 0 THEN q ELSE q + 1

\* " (slope %.4f)" % v: the sign and the value in units of 0.0001
SlopeText(v) == <<"slope", v[1] < 0, RoundHalfEven(Abs(v[1]) * 10000, v[2])>>

\* the empty string
NoSlope == <<>>

\* variant of EnoughYears: len(x) >= 5
EnoughYearsOrEqual(x) == Len(x) >= MinYears

\* len(x) > 5
EnoughYears(x) == Len(x) > MinYears

\* plot_years(x, y): the lists x and y as the call leaves them, what is drawn beside
\* the scatter points (the fitted line y_pred and the 95% band), and the slope text
\* that is returned.  The numbers of the band are not modelled, only whether it is
\* drawn.
plot_years(x, y) ==
    LET kept == DropNone(x, y, Len(x))
        fitted == EnoughYears(kept.x)
        y_pred == predict(ols_params(kept.x, kept.y), kept.x)
    IN  [x |-> kept.x,
         y |-> kept.y,
         y_pred |-> IF fitted THEN y_pred ELSE <<>>,
         band |-> fitted,
         slope |-> IF fitted THEN SlopeText(FSub(y_pred[2], y_pred[1])) ELSE NoSlope]

(***************************************************************************)
(* "Taxon trends" cell: the totals of the core species and the plots.      *)
(***************************************************************************)
\* taxon.firstEvent == startEvent and taxon.lastEvent == endEvent
IsCore(taxon) == taxon.firstEvent = startEvent /\ taxon.lastEvent = endEvent

RECURSIVE year_total(_, _, _, _)
\* year_totals[i] after the taxa 0 .. t of the loop
year_total(tx, am, i, t) ==
    IF t < 0 THEN None
    ELSE LET prev == year_total(tx, am, i, t - 1)
         IN  IF IsCore(tx[t]) /\ notna(am[t][i])
             THEN (IF prev = None THEN am[t][i] ELSE FAdd(prev, am[t][i]))
             ELSE prev

RECURSIVE month_total(_, _, _, _)
\* month_totals[i] after the taxa 0 .. t of the loop
month_total(tx, mm, i, t) ==
    IF t < 0 THEN Zero
    ELSE IF IsCore(tx[t]) THEN FAdd(month_total(tx, mm, i, t - 1), mm[t][i])
         ELSE month_total(tx, mm, i, t - 1)

\* list(range(1992, 2020)), for the years of the model
YearList(k) == [i \in 1 .. k |-> start_year + i - 1]

\* year_totals, month_totals and n, from "year_totals = [None] * 28" to the end of
\* the loop over the taxa (the literal 28 is num_years)
CohortTotals ==
    /\ pc = "means"
    /\ year_totals' =
          [i \in 1 .. num_years |-> year_total(taxa, annual_means, i - 1, NumTaxa - 1)]
    /\ month_totals' =
          [i \in 1 .. MonthsPerYear |-> month_total(taxa, monthly_means, i - 1, NumTaxa - 1)]
    /\ n' = Cardinality({t \in Taxa : IsCore(taxa[t])})
    /\ pc' = "totals"
    /\ UNCHANGED <<individuals, nights, taxa, last, calls, mean_individuals,
                   monthly_means, annual_means, error, trends, px, py, plot>>

\* the rest of the cell: plot_years for the core species, which pops the None
\* entries out of year_totals, and for every taxon; trends holds the slope texts
Plots ==
    /\ pc = "totals"
    /\ LET cohort == plot_years(YearList(num_years), year_totals)
       IN  /\ year_totals' = cohort.y
           /\ trends' =
                 <<cohort.slope>> \o
                 [i \in 1 .. NumTaxa |->
                     plot_years(YearList(num_years),
                                [k \in 1 .. num_years |-> annual_means[i - 1][k - 1]]).slope]
    /\ pc' = "plots"
    /\ UNCHANGED <<individuals, nights, taxa, last, calls, mean_individuals,
                   monthly_means, annual_means, error, month_totals, n, px, py, plot>>

\* one call plot_years(px, py): px and py are popped in place; plot keeps the
\* arguments as they were passed and what the call drew and returned
PlotYears ==
    /\ pc = "plot"
    /\ LET r == plot_years(px, py)
       IN  /\ px' = r.x
           /\ py' = r.y
           /\ plot' = [x |-> px, y |-> py, y_pred |-> r.y_pred, band |-> r.band,
                       slope |-> r.slope]
    /\ pc' = "plotted"
    /\ UNCHANGED <<individuals, nights, taxa, last, calls, mean_individuals,
                   monthly_means, annual_means, error, year_totals, month_totals, n,
                   trends>>

(***************************************************************************)
(* Tables as the Load cell can leave them, for the cells that follow it.   *)
(***************************************************************************)
\* the months (0 .. 11) that may be the one month a year misses
GapMonths == {0, 5, 11}

\* how a taxon was sampled: never; from the second year on; or every year, with
\* one month missing in the years of a set (no year, one year, or every year)
SamplingKinds ==
    {<<"never", {}>>, <<"late", {}>>, <<"gaps", {}>>, <<"gaps", Years>>}
        \cup {<<"gaps", {y}>> : y \in Years}

Sampled(kind, y, m, g) ==
    CASE kind[1] = "never" -> FALSE
      [] kind[1] = "late" -> y > 0
      [] OTHER -> ~(y \in kind[2] /\ m = g)

\* nights and individuals of a sampled bucket
SampleNights(t, y, m) == 1 + ((y + m) % 2)
SampleCount(t, y, m) == (t + 2 * y + m) % 4

\* the state when the Load cell has read all of occurrence.csv
InitLoaded ==
    /\ \E g \in GapMonths, kind \in [Taxa -> SamplingKinds] :
          /\ nights =
                [t \in Taxa |-> [b \in Buckets |->
                    IF Sampled(kind[t], b \div 12, b % 12, g)
                    THEN RInt(SampleNights(t, b \div 12, b % 12)) ELSE Zero]]
          /\ individuals =
                [t \in Taxa |-> [b \in Buckets |->
                    IF Sampled(kind[t], b \div 12, b % 12, g)
                    THEN RInt(SampleCount(t, b \div 12, b % 12)) ELSE Zero]]
    /\ taxa \in [Taxa -> {CoreTaxon, LateTaxon}]
    /\ last = NoCall
    /\ calls = 0
    /\ pc = "load"
    /\ LaterCellsUnset

\* the arguments of one call of plot_years
InitPlot ==
    /\ individuals = ZeroTable
    /\ nights = ZeroTable
    /\ taxa = [t \in Taxa |-> CoreTaxon]
    /\ last = NoCall
    /\ calls = 0
    /\ mean_individuals = Unset
    /\ monthly_means = Unset
    /\ annual_means = Unset
    /\ error = ""
    /\ year_totals = Unset
    /\ month_totals = Unset
    /\ n = 0
    /\ trends = Unset
    /\ plot = Unset
    /\ px = YearList(PlotLen)
    /\ py \in [1 .. PlotLen -> {None} \cup {RInt(v) : v \in 0 .. MaxValue}]
    /\ pc = "plot"

Next == UpdateTables

NextMeans == MeanCell \/ CohortTotals \/ Plots

NextTrend == PlotYears

\* the Load cell, row by row
Spec == Init /\ [][Next]_vars

\* the cells after the Load cell, from tables the Load cell can leave
SpecMeans == InitLoaded /\ [][NextMeans]_vars

\* plot_years on its own, over every list of values
SpecTrend == InitPlot /\ [][NextTrend]_vars
(***************************************************************************)
(* Claims about the Load cell.                                             *)
(***************************************************************************)
RECURSIVE SumCells(_, _)
\* the sum of row[0 .. k]
SumCells(row, k) == IF k < 0 THEN Zero ELSE FAdd(SumCells(row, k - 1), row[k])

RowTotal(table, t) == SumCells(table[t], NumBuckets - 1)

\* what the last call added to row t of the two tables
AddedIndividuals(t) == FSub(RowTotal(individuals, t), RowTotal(last.individuals, t))
AddedNights(t) == FSub(RowTotal(nights, t), RowTotal(last.nights, t))

Crossing(event) == event.numNights > event.day

\* every cell of row t other than those of the buckets in keep is as the call found it
RowUntouchedExcept(t, keep) ==
    \A b \in Buckets \ keep :
        /\ individuals[t][b] = last.individuals[t][b]
        /\ nights[t][b] = last.nights[t][b]

\* an event that does not cross a month boundary lands whole in its own bucket
WholeInOneBucket ==
    LET e == last.event
        t == last.taxon_index
        ti == time_index(e)
    IN  ~Crossing(e) =>
            /\ individuals[t][ti] = FAdd(last.individuals[t][ti], RInt(last.count))
            /\ nights[t][ti] = FAdd(last.nights[t][ti], RInt(e.numNights))
            /\ RowUntouchedExcept(t, {ti})

\* C1 as stated: every call of update_tables, for an event in any bucket, adds
\* exactly count to row taxon_index of individuals and exactly nightsInSample to that
\* row of nights; an event with nightsInSample <= day lands whole in one bucket.
C1_ConservationEveryBucket ==
    last.called =>
        /\ AddedIndividuals(last.taxon_index) = RInt(last.count)
        /\ AddedNights(last.taxon_index) = RInt(last.event.numNights)
        /\ WholeInOneBucket

\* C1 amended: the row totals grow by exactly count and nightsInSample unless the
\* event crosses a month boundary in the first bucket of the range; there only the
\* current-month shares count*day/nightsInSample and day are added.
C1_ConservationExceptFirstBucket ==
    last.called =>
        LET e == last.event
            t == last.taxon_index
        IN  /\ IF Crossing(e) /\ time_index(e) = 0
               THEN /\ AddedIndividuals(t) = Norm(last.count * e.day, e.numNights)
                    /\ AddedNights(t) = RInt(e.day)
               ELSE /\ AddedIndividuals(t) = RInt(last.count)
                    /\ AddedNights(t) = RInt(e.numNights)
            /\ WholeInOneBucket

\* a counted boundary-crossing event after the first bucket has been added, on top of
\* an earlier call
C1_Witness ==
    /\ last.called
    /\ calls = 2
    /\ Crossing(last.event)
    /\ time_index(last.event) > 0
    /\ last.count > 0
    /\ last.individuals[last.taxon_index][time_index(last.event)] # Zero

\* C8: after any sequence of update_tables calls the mean of a cell is defined
\* exactly when the cell has nights > 0, and no cell has individuals > 0 with
\* nights = 0.
C8_MeanDefinedIffNights ==
    \A t \in Taxa, b \in Buckets :
        /\ notna(mean_individuals_of(individuals, nights)[t][b]) <=> nights[t][b][1] > 0
        /\ ~(individuals[t][b][1] > 0 /\ nights[t][b] = Zero)

\* a boundary-crossing event with a positive count was split over two buckets
C8_Witness ==
    /\ last.called
    /\ Crossing(last.event)
    /\ time_index(last.event) > 0
    /\ last.count > 0
    /\ individuals[last.taxon_index][time_index(last.event) - 1][1] > 0
    /\ \E b \in Buckets : nights[last.taxon_index][b] = Zero

\* C9: every cell of individuals and of nights is non-negative, and no call of
\* update_tables leaves a cell smaller than it found it.
C9_Monotone ==
    /\ \A t \in Taxa, b \in Buckets :
          FLeq(Zero, individuals[t][b]) /\ FLeq(Zero, nights[t][b])
    /\ last.called =>
          \A t \in Taxa, b \in Buckets :
              /\ FLeq(last.individuals[t][b], individuals[t][b])
              /\ FLeq(last.nights[t][b], nights[t][b])

\* a second call has added to a cell that the first call had already filled
C9_Witness ==
    /\ last.called
    /\ calls = 2
    /\ \E b \in Buckets :
          /\ FLeq(last.individuals[last.taxon_index][b], Zero) = FALSE
          /\ individuals[last.taxon_index][b] # last.individuals[last.taxon_index][b]

\* C10: a boundary-crossing event dated in bucket b adds count*day/nightsInSample
\* individuals and day nights to bucket b; for b > 0 it adds the complementary
\* shares to bucket b-1; for b = 0 those shares are dropped and no other cell of
\* either table changes.
C10_Prorating ==
    (last.called /\ Crossing(last.event)) =>
        LET e == last.event
            t == last.taxon_index
            b == time_index(e)
        IN  /\ individuals[t][b] =
                  FAdd(last.individuals[t][b], Norm(last.count * e.day, e.numNights))
            /\ nights[t][b] = FAdd(last.nights[t][b], RInt(e.day))
            /\ b > 0 =>
                  /\ individuals[t][b - 1] =
                        FAdd(last.individuals[t][b - 1],
                             Norm(last.count * (e.numNights - e.day), e.numNights))
                  /\ nights[t][b - 1] =
                        FAdd(last.nights[t][b - 1], RInt(e.numNights - e.day))
            /\ b = 0 =>
                  /\ RowUntouchedExcept(t, {0})
                  /\ \A u \in Taxa \ {t} : RowUntouchedExcept(u, {})

\* the event of 1992-02-03 with 5 nights and one individual: 3/5 in February 1992,
\* 2/5 in January 1992, 3 and 2 nights
C10_Witness ==
    /\ last.called
    /\ last.event = events[3]
    /\ last.individuals = ZeroTable
    /\ individuals[last.taxon_index][1] = <<3, 5>>
    /\ individuals[last.taxon_index][0] = <<2, 5>>
    /\ nights[last.taxon_index][1] = RInt(3)
    /\ nights[last.taxon_index][0] = RInt(2)
\* C11: one call of update_tables for taxon index t and an event in bucket b changes
\* at most the cells [t][b] and [t][b-1] of individuals and of nights; every other
\* bucket of row t and every cell of every other row stays as it was, whatever
\* nightsInSample is (also when it is longer than the previous month).
C11_Frame ==
    last.called =>
        LET t == last.taxon_index
            b == time_index(last.event)
        IN  /\ RowUntouchedExcept(t, {b, b - 1})
            /\ \A u \in Taxa \ {t} : RowUntouchedExcept(u, {})

\* after a row for another taxon, a counted event of 35 nights (more than the 31
\* nights of the month before) was added: two cells of its row changed, and the
\* other taxon's row still holds what the first call put there
C11_Witness ==
    /\ last.called
    /\ calls = 2
    /\ last.count > 0
    /\ last.event.numNights > 31
    /\ individuals[last.taxon_index][time_index(last.event)] #
           last.individuals[last.taxon_index][time_index(last.event)]
    /\ individuals[last.taxon_index][time_index(last.event) - 1] #
           last.individuals[last.taxon_index][time_index(last.event) - 1]
    /\ \E u \in Taxa \ {last.taxon_index} : \E c \in Buckets : nights[u][c] # Zero

(***************************************************************************)
(* Claims about the "Mean individuals per night" cell.                     *)
(***************************************************************************)
BucketOf(y, m) == y * 12 + m

\* the months of year y in which taxon t has a mean
MonthsWithMean(t, y) == {m \in Months : notna(mean_individuals[t][BucketOf(y, m)])}

\* the months of year y in which taxon t was sampled
MonthsSampled(t, y) == {m \in Months : nights[t][BucketOf(y, m)][1] > 0}

\* the sum of the twelve monthly means of taxon t in year y
SumOfYear(t, y) == SumCells([m \in Months |-> mean_individuals[t][BucketOf(y, m)]], 11)

YearsSampled(t, m) == {y \in Years : nights[t][BucketOf(y, m)][1] > 0}

NeverSampled(t) == \A b \in Buckets : nights[t][b] = Zero

\* C3: the cell ends without an exception; a taxon that was never sampled has an
\* all-undefined row in mean_individuals, monthly_means and annual_means, and a
\* (taxon, calendar month) without a sampled year has an undefined monthly mean.
C3_NeverSampledIsNoError ==
    pc # "load" =>
        /\ error = ""
        /\ annual_means # Unset
        /\ \A t \in Taxa, m \in Months :
              YearsSampled(t, m) = {} => ~notna(monthly_means[t][m])
        /\ \A t \in Taxa :
              NeverSampled(t) =>
                  /\ \A b \in Buckets : ~notna(mean_individuals[t][b])
                  /\ \A y \in Years : ~notna(annual_means[t][y])

RECURSIVE SumOver(_, _)
\* the sum of f[i] over the i of a finite set
SumOver(S, f) ==
    IF S = {} THEN Zero
    ELSE LET i == CHOOSE j \in S : TRUE
         IN  FAdd(f[i], SumOver(S \ {i}, f))

\* C7: for every taxon and calendar month with at least one sampled year,
\* monthly_means[t][m] is the sum of the means of the sampled years divided by the
\* number of sampled years.
C7_MonthlyMeanOverSampledYears ==
    pc # "load" =>
        \A t \in Taxa, m \in Months :
            YearsSampled(t, m) # {} =>
                monthly_means[t][m] =
                    FDiv(SumOver(YearsSampled(t, m),
                                 [y \in Years |-> mean_individuals[t][BucketOf(y, m)]]),
                         RInt(Cardinality(YearsSampled(t, m))))

(***************************************************************************)
(* Claims about the "Taxon trends" cell.                                   *)
(***************************************************************************)
CoreTaxa == {t \in Taxa : IsCore(taxa[t])}

\* C4: year_totals[y] is the sum of the annual means of the core species when
\* every core species has an annual mean for y, and None when any of them has not.
C4_CohortTotalNeedsEveryTaxon ==
    (pc = "totals" /\ CoreTaxa # {}) =>
        \A y \in Years :
            IF \A t \in CoreTaxa : annual_means[t][y] # None
            THEN year_totals[y + 1] =
                     SumOver(CoreTaxa, [t \in Taxa |-> annual_means[t][y]])
            ELSE year_totals[y + 1] = None

\* the mean of s[1 .. Len(s)]
MeanOf(s) == FDiv(SumSeq(s, Len(s)), RInt(Len(s)))

\* the least-squares coefficient of y on x: sum of (x - mean x)(y - mean y) over
\* sum of (x - mean x)^2
OLSCoefficient(x, y) ==
    LET k == Len(x)
        xs == [i \in 1 .. k |-> RInt(x[i])]
        dx == [i \in 1 .. k |-> FSub(xs[i], MeanOf(xs))]
        dy == [i \in 1 .. k |-> FSub(y[i], MeanOf(y))]
    IN  FDiv(SumSeq([i \in 1 .. k |-> FMul(dx[i], dy[i])], k),
             SumSeq([i \in 1 .. k |-> FMul(dx[i], dx[i])], k))

\* C5: whenever a slope is reported, it is the least-squares coefficient on year
\* of the retained (year, value) pairs, whatever gaps the retained years have.
C5_SlopeIsCoefficient ==
    (pc = "plotted" /\ Len(px) > 5) =>
        plot.slope = SlopeText(OLSCoefficient(px, py))

RECURSIVE DefinedPairs(_, _, _)
\* the pairs <<x[j], y[j]>>, j >= i, whose value is not None, in order
DefinedPairs(x, y, i) ==
    IF i > Len(x) THEN <<>>
    ELSE (IF y[i] # None THEN << <<x[i], y[i]>> >> ELSE <<>>) \o DefinedPairs(x, y, i + 1)

\* C6: plot_years drops exactly the pairs whose value is None; a slope is
\* reported, and the fitted line and the band are drawn, if and only if more than
\* 5 pairs remain: with 5 the slope is the empty string.
C6_RegressionGate ==
    pc = "plotted" =>
        LET pairs == DefinedPairs(plot.x, plot.y, 1)
        IN  /\ px = [i \in 1 .. Len(pairs) |-> pairs[i][1]]
            /\ py = [i \in 1 .. Len(pairs) |-> pairs[i][2]]
            /\ plot.slope # NoSlope <=> Len(pairs) > 5
            /\ plot.y_pred # <<>> <=> Len(pairs) > 5
            /\ plot.band <=> Len(pairs) > 5
            /\ Len(pairs) = 5 => plot.slope = <<>>

\* a list with one None and exactly 6 values: the None is dropped and a slope is
\* reported
C6_Witness ==
    /\ pc = "plotted"
    /\ Len(plot.x) = Len(px) + 1
    /\ Len(px) = 6
    /\ plot.slope # NoSlope
====
